---- MODULE Spec2Model ----
(***************************************************************************)
(* Model of AudioStreamer (src/app/livebot/lib/audio-streamer.ts): the     *)
(* frame assembler, the playback queue, the lookahead scheduler and the    *)
(* lifecycle operations, driven by timers and playback-ended callbacks.    *)
(*                                                                         *)
(* Time is counted in sample periods (1/sampleRate s), so that the         *)
(* duration of an AudioBuffer of n samples is exactly n and every constant *)
(* of the source (0.1 s, 0.2 s, 50 ms, 100 ms) is an integer.              *)
(* Sample values are not modelled, only the lengths of the arrays; the     *)
(* gain node is not modelled (no operation reads it back).                 *)
(***************************************************************************)
EXTENDS Integers, Sequences, FiniteSets, Bags, TLC

\* ---- program constants -------------------------------------------------
sampleRate == 24000
bufferSize == 7680
\* initialBufferTime = 0.1 s
initialBufferTime == sampleRate \div 10
\* SCHEDULE_AHEAD_TIME = 0.2 s
SCHEDULE_AHEAD_TIME == sampleRate \div 5
\* the 50 ms subtracted from the one-shot re-check delay
RearmMargin == sampleRate \div 20
\* the 100 ms period of the starvation poll
PollInterval == sampleRate \div 10

\* ---- bounds of the model -----------------------------------------------
\* number of addPCM16 calls in a run
MaxChunks == 2
\* the clock stops advancing here
MaxNow == 6000
\* number of stop() calls in a run
MaxStops == 1
\* the counter of onComplete invocations saturates here
MaxCompletions == 2
\* byte lengths of the chunks handed to addPCM16
ChunkBytes == {3, 15360, 15362, 30720}
\* amounts by which the output clock advances between two callbacks
ClockSteps == {6000}
\* in a session under fair scheduling, the last clock time at which the
\* caller still calls addPCM16 or complete()
InputUntil == 6000
\* byte lengths of the chunks of such a session
SessionChunkBytes == {3, 15360}
\* number of handlers registered under one worklet name
MaxHandlers == 2
\* the worklet names and the message handlers passed to addWorklet
WorkletNames == {"vumeter-out", "vumeter-in"}
HandlerIds == {1, 2}

VARIABLES
    audioQueue,             \* Seq of [id, len]: frames awaiting scheduling
    isPlaying,
    processingBuffer,       \* length of the remainder buffer
    scheduledTime,
    isStreamComplete,
    checkInterval,          \* TRUE iff the setInterval handle is non-null
    intervalDue,            \* next firing time of the interval (0 if none)
    endOfQueueAudioSource,  \* 0 for null, else the index of a source
    now,                    \* context.currentTime
    timers,                 \* bag of firing times of pending setTimeout drains
    submitted,              \* Seq of [frame, start, dur, epoch]: source.start calls
    playing,                \* indices of submitted sources that have not ended
    hooks,                  \* indices of sources whose onended is non-null
    resumeWaiting,          \* a resume() call is suspended at its await
    appended,               \* history: length of every frame ever pushed
    decodedTotal,           \* history: number of samples decoded
    chunks,                 \* history: number of addPCM16 calls
    epoch,                  \* history: number of stop() calls
    afterStop,              \* history: stop() was called and no addPCM16 since
    completions,            \* history: onComplete invocations in this session
    fired,                  \* history: the last step invoked onComplete
    lastOp,                 \* history: [name, src] of the last step
    registeredWorklets,     \* context -> (worklet name -> [handlers, node])
    loading,                \* worklet name -> await at which its addWorklet call waits
    lastWorklet             \* history: [op, name, path] of the last addWorklet step

\* the worklet registry and the addWorklet calls in flight
wvars == <<registeredWorklets, loading, lastWorklet>>

vars == <<audioQueue, isPlaying, processingBuffer, scheduledTime,
          isStreamComplete, checkInterval, intervalDue, endOfQueueAudioSource,
          now, timers, submitted, playing, hooks, resumeWaiting, appended,
          decodedTotal, chunks, epoch, afterStop, completions, fired, lastOp,
          registeredWorklets, loading, lastWorklet>>

Max(a, b) == IF a >= b THEN a ELSE b
Min(a, b) == IF a <= b THEN a ELSE b

Op(name, src) == [name |-> name, src |-> src]
WOp(op, name, path) == [op |-> op, name |-> name, path |-> path]

\* a map without entries, and a map with one entry set
NoEntries == [k \in {} |-> k]
Put(f, key, v) == [k \in DOMAIN f \cup {key} |-> IF k = key THEN v ELSE f[k]]
Drop(f, key) == [k \in DOMAIN f \ {key} |-> f[k]]

\* ---- the streamer's fields as one record -------------------------------
Cur ==
    [q |-> audioQueue, pb |-> processingBuffer, st |-> scheduledTime,
     sc |-> isStreamComplete, ip |-> isPlaying, tm |-> timers,
     ci |-> checkInterval, cd |-> intervalDue, sub |-> submitted,
     eoq |-> endOfQueueAudioSource, hooks |-> hooks, playing |-> playing]

Commit(r) ==
    /\ audioQueue' = r.q
    /\ processingBuffer' = r.pb
    /\ scheduledTime' = r.st
    /\ isStreamComplete' = r.sc
    /\ isPlaying' = r.ip
    /\ timers' = r.tm
    /\ checkInterval' = r.ci
    /\ intervalDue' = r.cd
    /\ submitted' = r.sub
    /\ endOfQueueAudioSource' = r.eoq
    /\ hooks' = r.hooks
    /\ playing' = r.playing

Init ==
    /\ audioQueue = <<>>
    /\ isPlaying = FALSE
    /\ processingBuffer = 0
    /\ scheduledTime = 0
    /\ isStreamComplete = FALSE
    /\ checkInterval = FALSE
    /\ intervalDue = 0
    /\ endOfQueueAudioSource = 0
    /\ now = 0
    /\ timers = EmptyBag
    /\ submitted = <<>>
    /\ playing = {}
    /\ hooks = {}
    /\ resumeWaiting = FALSE
    /\ appended = <<>>
    /\ decodedTotal = 0
    /\ chunks = 0
    /\ epoch = 0
    /\ afterStop = FALSE
    /\ completions = 0
    /\ fired = FALSE
    /\ lastOp = Op("construct", 0)
    /\ registeredWorklets = NoEntries
    /\ loading = NoEntries
    /\ lastWorklet = WOp("none", "", "")

\* ---- PCM decoder and frame assembler -----------------------------------
\* new Float32Array(chunk.length / 2): the length is truncated to an integer
DecodedLen(bytes) == bytes \div 2

\* a slicing loop that keeps the remainder from one sample too far:
\* processingBuffer.slice(bufferSize + 1)
RECURSIVE SliceFramesSkipsSample(_)
SliceFramesSkipsSample(s) ==
    IF s.pb >= bufferSize
    THEN SliceFramesSkipsSample(
             [pb  |-> Max(0, s.pb - bufferSize - 1),
              q   |-> Append(s.q, [id |-> Len(s.app) + 1, len |-> bufferSize]),
              app |-> Append(s.app, bufferSize)])
    ELSE s

\* an `if` in place of the `while`: at most one frame is sliced per call
SliceFramesOnce(s) ==
    IF s.pb >= bufferSize
    THEN [pb  |-> s.pb - bufferSize,
          q   |-> Append(s.q, [id |-> Len(s.app) + 1, len |-> bufferSize]),
          app |-> Append(s.app, bufferSize)]
    ELSE s

\* the while loop of addPCM16: s = [pb, q, app]
RECURSIVE SliceFrames(_)
SliceFrames(s) ==
    IF s.pb >= bufferSize
    THEN SliceFrames([pb  |-> s.pb - bufferSize,
                      q   |-> Append(s.q, [id |-> Len(s.app) + 1, len |-> bufferSize]),
                      app |-> Append(s.app, bufferSize)])
    ELSE s

\* ---- lookahead scheduler -----------------------------------------------
\* audioBuffer.duration of a buffer of len samples, in sample periods
Duration(len) == len

\* audioQueue.pop() in place of audioQueue.shift()
PopFrame(q) == [frame |-> q[Len(q)], rest |-> SubSeq(q, 1, Len(q) - 1)]

\* audioQueue.shift(): the frame removed and the rest of the queue
ShiftFrame(q) == [frame |-> Head(q), rest |-> Tail(q)]

\* a loop that arms the new end-of-queue source without clearing the
\* onended of the previous one
RECURSIVE DrainLoopKeepsHook(_)
DrainLoopKeepsHook(s) ==
    IF Len(s.q) > 0 /\ s.st < now + SCHEDULE_AHEAD_TIME
    THEN LET sh        == ShiftFrame(s.q)
             source    == Len(s.sub) + 1
             last      == Len(sh.rest) = 0
             startTime == Max(s.st, now)
         IN  DrainLoopKeepsHook([s EXCEPT
                 !.q       = sh.rest,
                 !.hooks   = IF last THEN s.hooks \cup {source} ELSE s.hooks,
                 !.eoq     = IF last THEN source ELSE s.eoq,
                 !.sub     = Append(s.sub, [frame |-> sh.frame.id, start |-> startTime,
                                            dur |-> Duration(sh.frame.len), epoch |-> epoch]),
                 !.playing = s.playing \cup {source},
                 !.st      = startTime + Duration(sh.frame.len)])
    ELSE s

\* a loop without the lookahead test: it drains the whole queue
RECURSIVE DrainLoopNoLookahead(_)
DrainLoopNoLookahead(s) ==
    IF Len(s.q) > 0
    THEN LET sh        == ShiftFrame(s.q)
             source    == Len(s.sub) + 1
             last      == Len(sh.rest) = 0
             startTime == Max(s.st, now)
         IN  DrainLoopNoLookahead([s EXCEPT
                 !.q       = sh.rest,
                 !.hooks   = IF last THEN (s.hooks \ {s.eoq}) \cup {source} ELSE s.hooks,
                 !.eoq     = IF last THEN source ELSE s.eoq,
                 !.sub     = Append(s.sub, [frame |-> sh.frame.id, start |-> startTime,
                                            dur |-> Duration(sh.frame.len), epoch |-> epoch]),
                 !.playing = s.playing \cup {source},
                 !.st      = startTime + Duration(sh.frame.len)])
    ELSE s

\* the while loop of scheduleNextBuffer
RECURSIVE DrainLoop(_)
DrainLoop(s) ==
    IF Len(s.q) > 0 /\ s.st < now + SCHEDULE_AHEAD_TIME
    THEN LET sh        == ShiftFrame(s.q)
             source    == Len(s.sub) + 1
             last      == Len(sh.rest) = 0
             startTime == Max(s.st, now)
         IN  DrainLoop([s EXCEPT
                 !.q       = sh.rest,
                 !.hooks   = IF last THEN (s.hooks \ {s.eoq}) \cup {source} ELSE s.hooks,
                 !.eoq     = IF last THEN source ELSE s.eoq,
                 !.sub     = Append(s.sub, [frame |-> sh.frame.id, start |-> startTime,
                                            dur |-> Duration(sh.frame.len), epoch |-> epoch]),
                 !.playing = s.playing \cup {source},
                 !.st      = startTime + Duration(sh.frame.len)])
    ELSE s

\* a re-arm that forgets the one-shot timer when data is still pending
RearmForgetsTimer(s) ==
    IF Len(s.q) = 0 /\ s.pb = 0
    THEN IF s.sc
         THEN [s EXCEPT !.ip = FALSE, !.ci = FALSE, !.cd = 0]
         ELSE IF ~s.ci
              THEN [s EXCEPT !.ci = TRUE, !.cd = now + PollInterval]
              ELSE s
    ELSE s

\* a re-arm that deactivates on an empty queue without looking at the
\* remainder buffer
RearmIgnoresRemainder(s) ==
    IF Len(s.q) = 0
    THEN IF s.sc
         THEN [s EXCEPT !.ip = FALSE, !.ci = FALSE, !.cd = 0]
         ELSE IF ~s.ci
              THEN [s EXCEPT !.ci = TRUE, !.cd = now + PollInterval]
              ELSE s
    ELSE [s EXCEPT !.tm = s.tm (+) SetToBag({now + Max(0, (s.st - now) - RearmMargin)})]

\* what scheduleNextBuffer does after its loop
Rearm(s) ==
    IF Len(s.q) = 0 /\ s.pb = 0
    THEN IF s.sc
         THEN [s EXCEPT !.ip = FALSE, !.ci = FALSE, !.cd = 0]
         ELSE IF ~s.ci
              THEN [s EXCEPT !.ci = TRUE, !.cd = now + PollInterval]
              ELSE s
    ELSE [s EXCEPT !.tm = s.tm (+) SetToBag({now + Max(0, (s.st - now) - RearmMargin)})]

scheduleNextBuffer(s) == Rearm(DrainLoop(s))

\* one more invocation of onComplete in this session
Count(c) == Min(c + 1, MaxCompletions)

\* ---- operations --------------------------------------------------------
\* an addPCM16 that starts the cursor at the clock time, without the
\* initial buffering latency
addPCM16NoLatency(bytes) ==
    LET n  == DecodedLen(bytes)
        sl == SliceFrames([pb |-> processingBuffer + n, q |-> audioQueue, app |-> appended])
        s  == [Cur EXCEPT !.q = sl.q, !.pb = sl.pb]
    IN  /\ chunks < MaxChunks
        /\ chunks' = chunks + 1
        /\ IF ~isPlaying
           THEN Commit(scheduleNextBuffer([s EXCEPT !.ip = TRUE, !.st = now]))
           ELSE Commit(s)
        /\ appended' = sl.app
        /\ decodedTotal' = decodedTotal + n
        /\ afterStop' = FALSE
        /\ completions' = IF ~isPlaying THEN 0 ELSE completions
        /\ fired' = FALSE
        /\ lastOp' = Op("addPCM16", 0)
        /\ UNCHANGED wvars
        /\ UNCHANGED <<now, resumeWaiting, epoch>>

addPCM16(bytes) ==
    LET n  == DecodedLen(bytes)
        sl == SliceFrames([pb |-> processingBuffer + n, q |-> audioQueue, app |-> appended])
        s  == [Cur EXCEPT !.q = sl.q, !.pb = sl.pb]
    IN  /\ chunks < MaxChunks
        /\ chunks' = chunks + 1
        /\ IF ~isPlaying
           THEN Commit(scheduleNextBuffer([s EXCEPT !.ip = TRUE,
                                                    !.st = now + initialBufferTime]))
           ELSE Commit(s)
        /\ appended' = sl.app
        /\ decodedTotal' = decodedTotal + n
        /\ afterStop' = FALSE
        /\ completions' = IF ~isPlaying THEN 0 ELSE completions
        /\ fired' = FALSE
        /\ lastOp' = Op("addPCM16", 0)
        /\ UNCHANGED wvars
        /\ UNCHANGED <<now, resumeWaiting, epoch>>

\* a stop() that forgets to clear the queue and the remainder buffer
stopKeepsData ==
    /\ epoch < MaxStops
    /\ Commit([Cur EXCEPT !.ip = FALSE, !.sc = TRUE, !.st = now, !.ci = FALSE, !.cd = 0])
    /\ epoch' = epoch + 1
    /\ afterStop' = TRUE
    /\ completions' = 0
    /\ fired' = FALSE
    /\ lastOp' = Op("stop", 0)
    /\ UNCHANGED wvars
    /\ UNCHANGED <<now, resumeWaiting, appended, decodedTotal, chunks>>

stop ==
    /\ epoch < MaxStops
    /\ Commit([Cur EXCEPT !.ip = FALSE, !.sc = TRUE, !.q = <<>>, !.pb = 0,
                          !.st = now, !.ci = FALSE, !.cd = 0])
    /\ epoch' = epoch + 1
    /\ afterStop' = TRUE
    /\ completions' = 0
    /\ fired' = FALSE
    /\ lastOp' = Op("stop", 0)
    /\ UNCHANGED wvars
    /\ UNCHANGED <<now, resumeWaiting, appended, decodedTotal, chunks>>

\* the statements of resume() after the await
ResumeBody ==
    /\ Commit([Cur EXCEPT !.sc = FALSE, !.st = now + initialBufferTime])
    /\ completions' = 0
    /\ fired' = FALSE
    /\ lastOp' = Op("resume", 0)
    /\ UNCHANGED wvars
    /\ UNCHANGED <<now, appended, decodedTotal, chunks, epoch, afterStop>>

\* resume() called: the context is suspended (the call waits) or it is not
resume ==
    \E suspended \in BOOLEAN :
        IF suspended
        THEN /\ ~resumeWaiting
             /\ resumeWaiting' = TRUE
             /\ fired' = FALSE
             /\ lastOp' = Op("resumeCall", 0)
             /\ UNCHANGED wvars
             /\ UNCHANGED <<audioQueue, isPlaying, processingBuffer, scheduledTime,
                            isStreamComplete, checkInterval, intervalDue,
                            endOfQueueAudioSource, now, timers, submitted, playing,
                            hooks, appended, decodedTotal, chunks, epoch,
                            afterStop, completions>>
        ELSE /\ ResumeBody
             /\ UNCHANGED resumeWaiting

\* context.resume() settles and the suspended resume() call continues
resumeContinue ==
    /\ resumeWaiting
    /\ resumeWaiting' = FALSE
    /\ ResumeBody

\* a complete() that flushes the remainder but never calls scheduleNextBuffer
completeNoDrain ==
    /\ IF processingBuffer > 0
       THEN /\ Commit([Cur EXCEPT !.sc = TRUE,
                                   !.q = Append(audioQueue, [id |-> Len(appended) + 1,
                                                             len |-> processingBuffer]),
                                   !.pb = 0])
            /\ appended' = Append(appended, processingBuffer)
            /\ fired' = FALSE
            /\ completions' = completions
       ELSE /\ Commit([Cur EXCEPT !.sc = TRUE])
            /\ appended' = appended
            /\ fired' = TRUE
            /\ completions' = Count(completions)
    /\ lastOp' = Op("complete", 0)
    /\ UNCHANGED wvars
    /\ UNCHANGED <<now, resumeWaiting, decodedTotal, chunks, epoch, afterStop>>

\* a complete() that calls onComplete only when the scheduler is inactive
completeSilentWhilePlaying ==
    /\ IF processingBuffer > 0
       THEN LET id == Len(appended) + 1
                s  == [Cur EXCEPT !.sc = TRUE,
                                  !.q = Append(audioQueue, [id |-> id, len |-> processingBuffer]),
                                  !.pb = 0]
            IN  /\ Commit(IF isPlaying THEN scheduleNextBuffer(s) ELSE s)
                /\ appended' = Append(appended, processingBuffer)
                /\ fired' = FALSE
                /\ completions' = completions
       ELSE /\ Commit([Cur EXCEPT !.sc = TRUE])
            /\ appended' = appended
            /\ fired' = ~isPlaying
            /\ completions' = IF ~isPlaying THEN Count(completions) ELSE completions
    /\ lastOp' = Op("complete", 0)
    /\ UNCHANGED wvars
    /\ UNCHANGED <<now, resumeWaiting, decodedTotal, chunks, epoch, afterStop>>

complete ==
    /\ IF processingBuffer > 0
       THEN LET id == Len(appended) + 1
                s  == [Cur EXCEPT !.sc = TRUE,
                                  !.q = Append(audioQueue, [id |-> id, len |-> processingBuffer]),
                                  !.pb = 0]
            IN  /\ Commit(IF isPlaying THEN scheduleNextBuffer(s) ELSE s)
                /\ appended' = Append(appended, processingBuffer)
                /\ fired' = FALSE
                /\ completions' = completions
       ELSE /\ Commit([Cur EXCEPT !.sc = TRUE])
            /\ appended' = appended
            /\ fired' = TRUE
            /\ completions' = Count(completions)
    /\ lastOp' = Op("complete", 0)
    /\ UNCHANGED wvars
    /\ UNCHANGED <<now, resumeWaiting, decodedTotal, chunks, epoch, afterStop>>

\* ---- callbacks ---------------------------------------------------------
\* a one-shot setTimeout(() => this.scheduleNextBuffer(), ...) fires
timerFire ==
    \E d \in BagToSet(timers) :
        /\ d <= now
        /\ Commit(scheduleNextBuffer([Cur EXCEPT !.tm = timers (-) SetToBag({d})]))
        /\ fired' = FALSE
        /\ lastOp' = Op("timer", 0)
        /\ UNCHANGED wvars
        /\ UNCHANGED <<now, resumeWaiting, appended, decodedTotal, chunks, epoch,
                       afterStop, completions>>

\* the setInterval callback fires
intervalFire ==
    /\ checkInterval
    /\ intervalDue <= now
    /\ LET s == [Cur EXCEPT !.cd = now + PollInterval]
       IN  IF Len(audioQueue) > 0 \/ processingBuffer >= bufferSize
           THEN Commit(scheduleNextBuffer(s))
           ELSE Commit(s)
    /\ fired' = FALSE
    /\ lastOp' = Op("interval", 0)
    /\ UNCHANGED wvars
    /\ UNCHANGED <<now, resumeWaiting, appended, decodedTotal, chunks, epoch,
                   afterStop, completions>>

\* source i finishes playing; its onended handler, if any, runs
onended(i) ==
    /\ i \in playing
    /\ submitted[i].start + submitted[i].dur <= now
    /\ LET fire == /\ i \in hooks
                   /\ Len(audioQueue) = 0
                   /\ endOfQueueAudioSource = i
       IN  /\ Commit([Cur EXCEPT !.playing = playing \ {i},
                                 !.eoq = IF fire THEN 0 ELSE endOfQueueAudioSource])
           /\ fired' = fire
           /\ completions' = IF fire THEN Count(completions) ELSE completions
    /\ lastOp' = Op("onended", i)
    /\ UNCHANGED wvars
    /\ UNCHANGED <<now, resumeWaiting, appended, decodedTotal, chunks, epoch, afterStop>>

\* the output clock advances
tick ==
    \E d \in ClockSteps :
        /\ now + d <= MaxNow
        /\ now' = now + d
        /\ fired' = FALSE
        /\ lastOp' = Op("tick", 0)
        /\ UNCHANGED wvars
        /\ UNCHANGED <<audioQueue, isPlaying, processingBuffer, scheduledTime,
                       isStreamComplete, checkInterval, intervalDue,
                       endOfQueueAudioSource, timers, submitted, playing, hooks,
                       resumeWaiting, appended, decodedTotal, chunks, epoch, afterStop,
                       completions>>

Next ==
    \/ \E b \in ChunkBytes : addPCM16(b)
    \/ stop
    \/ resume
    \/ resumeContinue
    \/ complete
    \/ timerFire
    \/ intervalFire
    \/ \E i \in playing : onended(i)
    \/ tick

Spec == Init /\ [][Next]_vars

\* ---- processing-node registry ------------------------------------------
\* the one AudioContext of the streamer
context == "context"

\* registeredWorklets.get(this.context), or the fresh record of line 48
WorkletsRecord == IF context \in DOMAIN registeredWorklets
                  THEN registeredWorklets[context]
                  ELSE NoEntries

\* the streamer's own state, which addWorklet does not touch
svars == <<audioQueue, isPlaying, processingBuffer, scheduledTime,
           isStreamComplete, checkInterval, intervalDue, endOfQueueAudioSource,
           now, timers, submitted, playing, hooks, resumeWaiting, appended,
           decodedTotal, chunks, epoch, afterStop, completions, fired, lastOp>>

\* addWorklet(name, src, handler) up to its first await
addWorklet(name, handler) ==
    LET rec == WorkletsRecord
    IN  /\ UNCHANGED svars
        /\ IF name \in DOMAIN rec
           THEN /\ Len(rec[name].handlers) < MaxHandlers
                /\ registeredWorklets' =
                       Put(registeredWorklets, context,
                           Put(rec, name, [rec[name] EXCEPT !.handlers = Append(@, handler)]))
                /\ loading' = loading
                /\ lastWorklet' = WOp("addWorklet", name, "registered")
           ELSE /\ registeredWorklets' =
                       Put(registeredWorklets, context,
                           Put(rec, name, [handlers |-> <<handler>>, node |-> FALSE]))
                /\ loading' = Put(loading, name, "addModule")
                /\ lastWorklet' = WOp("addWorklet", name, "load")

\* the catch block: the error is logged and thrown again
Rethrow(name) ==
    /\ loading' = Drop(loading, name)
    /\ lastWorklet' = WOp("rejected", name, "load")
    /\ UNCHANGED registeredWorklets

\* audioWorklet.addModule settles: resolved or rejected
addModuleSettles(name) ==
    /\ UNCHANGED svars
    /\ name \in DOMAIN loading
    /\ loading[name] = "addModule"
    /\ \E ok \in BOOLEAN :
           IF ok
           THEN /\ loading' = Put(loading, name, "delay")
                /\ lastWorklet' = WOp("moduleLoaded", name, "load")
                /\ UNCHANGED registeredWorklets
           ELSE Rethrow(name)

\* the 100 ms delay is over: new AudioWorkletNode returns or throws
createNode(name) ==
    /\ UNCHANGED svars
    /\ name \in DOMAIN loading
    /\ loading[name] = "delay"
    /\ \E ok \in BOOLEAN :
           IF ok
           THEN /\ registeredWorklets' =
                       Put(registeredWorklets, context,
                           Put(WorkletsRecord, name,
                               [WorkletsRecord[name] EXCEPT !.node = TRUE]))
                /\ loading' = Drop(loading, name)
                /\ lastWorklet' = WOp("resolved", name, "load")
           ELSE Rethrow(name)

WorkletNext ==
    \/ \E n \in WorkletNames, h \in HandlerIds : addWorklet(n, h)
    \/ \E n \in WorkletNames : addModuleSettles(n)
    \/ \E n \in WorkletNames : createNode(n)

WorkletSpec == Init /\ [][WorkletNext]_vars

\* ---- C13 ---------------------------------------------------------------
\* C13: when an addWorklet call fails, the name is left out of the registry
\* of the context, and so an addWorklet call never takes the
\* already-registered path for a name that has neither a node nor a load in
\* flight.
C13_FailedLoadUnregisters ==
    /\ lastWorklet.op = "rejected" => lastWorklet.name \notin DOMAIN WorkletsRecord
    /\ (lastWorklet.op = "addWorklet" /\ lastWorklet.path = "registered") =>
           \/ WorkletsRecord[lastWorklet.name].node
           \/ lastWorklet.name \in DOMAIN loading

\* ---- one playback session under fair scheduling -------------------------
\* No stop() and no resume(); the caller calls addPCM16 and complete() up to
\* clock time InputUntil; a callback that is due runs before the clock
\* advances again, and the clock advances far enough for every frame of the
\* session to be played.
Horizon ==
    InputUntil + initialBufferTime
        + 2 * MaxChunks * (bufferSize + SCHEDULE_AHEAD_TIME) + 6000

\* no timer, interval or playback-ended callback is due
NothingDue ==
    /\ \A t \in BagToSet(timers) : t > now
    /\ ~(checkInterval /\ intervalDue <= now)
    /\ \A i \in playing : submitted[i].start + submitted[i].dur > now

\* the output clock advances once the due callbacks have run
tickOnTime ==
    \E d \in ClockSteps :
        /\ now + d <= Horizon
        /\ NothingDue
        /\ now' = now + d
        /\ fired' = FALSE
        /\ lastOp' = Op("tick", 0)
        /\ UNCHANGED wvars
        /\ UNCHANGED <<audioQueue, isPlaying, processingBuffer, scheduledTime,
                       isStreamComplete, checkInterval, intervalDue,
                       endOfQueueAudioSource, timers, submitted, playing, hooks,
                       resumeWaiting, appended, decodedTotal, chunks, epoch, afterStop,
                       completions>>

sessionAddPCM16(bytes) == now <= InputUntil /\ addPCM16(bytes)

sessionComplete == now <= InputUntil /\ complete

\* the event loop: timers, the interval, playback-ended events and the clock
Callbacks ==
    \/ timerFire
    \/ intervalFire
    \/ \E i \in playing : onended(i)
    \/ tickOnTime

SessionNext ==
    \/ \E b \in SessionChunkBytes : sessionAddPCM16(b)
    \/ sessionComplete
    \/ timerFire
    \/ intervalFire
    \/ \E i \in playing : onended(i)
    \/ tickOnTime

SessionSpec == Init /\ [][SessionNext]_vars /\ WF_vars(Callbacks)

\* ---- helpers of the properties -----------------------------------------
RECURSIVE SumSeq(_)
SumSeq(sq) == IF sq = <<>> THEN 0 ELSE Head(sq) + SumSeq(Tail(sq))

\* the sources submitted by the step
NewSources == (Len(submitted) + 1)..Len(submitted')

\* ---- C1 ----------------------------------------------------------------
\* C1: within one session onComplete is invoked at most once; in particular
\* a playback-ended notification never delivers a second invocation after an
\* earlier one (such as a complete() while frames were still playing).
C1_SingleCompletion ==
    (lastOp.name = "onended" /\ fired) => completions <= 1

\* ---- C2 ----------------------------------------------------------------
\* C2: with no stop(), the frames submitted to the device are, in order, the
\* first frames ever appended to the queue, and the queue holds the rest in
\* order: nothing is reordered, duplicated or skipped.
C2_SubmittedIsPrefix ==
    epoch = 0 =>
        /\ Len(submitted) + Len(audioQueue) = Len(appended)
        /\ \A i \in 1..Len(submitted) :
               /\ submitted[i].frame = i
               /\ submitted[i].dur = Duration(appended[i])
        /\ \A j \in 1..Len(audioQueue) :
               /\ audioQueue[j].id = Len(submitted) + j
               /\ audioQueue[j].len = appended[Len(submitted) + j]

C2_Witness ==
    /\ epoch = 0
    /\ Len(submitted) = 2
    /\ Len(audioQueue) = 1

\* ---- C3 ----------------------------------------------------------------
\* C3: with no stop(), the number of samples decoded so far equals the sum of
\* the lengths of all frames ever produced plus the remainder buffer length.
C3_SampleConservation ==
    epoch = 0 => decodedTotal = SumSeq(appended) + processingBuffer

C3_Witness ==
    /\ epoch = 0
    /\ lastOp.name = "addPCM16"
    /\ Len(appended) = 2
    /\ processingBuffer > 0
    /\ decodedTotal > 2 * bufferSize

\* ---- C4 ----------------------------------------------------------------
\* C4: every start time submitted by a step is at least the clock time of
\* that step, and scheduledTime does not decrease in a step that is neither
\* a resume() nor a stop().
C4_MonotonicCursor ==
    [][ /\ \A i \in NewSources : submitted'[i].start >= now
        /\ lastOp'.name \notin {"resume", "stop"} => scheduledTime' >= scheduledTime
      ]_vars

\* ---- C5 ----------------------------------------------------------------
\* C5: of two frames submitted one after the other, the later one never
\* starts before the earlier one.
C5_NonDecreasingStarts ==
    \A i \in 1..(Len(submitted) - 1) : submitted[i].start <= submitted[i + 1].start

\* ---- C6 ----------------------------------------------------------------
\* C6: when stop() returns the queue and the remainder buffer are empty,
\* isPlaying is false and isStreamComplete is true; and from stop() until the
\* next addPCM16 they stay empty and no step submits a frame.
C6_StopDiscards ==
    /\ [](lastOp.name = "stop" => isStreamComplete)
    /\ [](afterStop => /\ audioQueue = <<>>
                       /\ processingBuffer = 0
                       /\ ~isPlaying)
    /\ [][afterStop' => submitted' = submitted]_vars

C6_Witness ==
    /\ afterStop
    /\ lastOp.name = "timer"
    /\ Len(submitted) > 0

\* ---- C7 ----------------------------------------------------------------
\* C7: when stop() returns no drain timer is pending: neither the poll
\* interval nor a one-shot re-check timer.
C7_StopDisarmsTimers ==
    lastOp.name = "stop" => (timers = EmptyBag /\ ~checkInterval)

\* ---- C8 ----------------------------------------------------------------
\* C8: the end of a frame submitted before stop() does not invoke onComplete
\* once an addPCM16 has followed that stop().
C8_StaleEndIgnored ==
    ( /\ lastOp.name = "onended"
      /\ submitted[lastOp.src].epoch < epoch
      /\ ~afterStop ) => ~fired

\* ---- C9 ----------------------------------------------------------------
\* C9: complete() with r > 0 samples in the remainder buffer sets
\* isStreamComplete, pushes exactly one frame of length r at the tail of the
\* queue, empties the remainder buffer, runs the drain at once if isPlaying
\* (and only then), and does not invoke onComplete.
C9_CompleteFlushes ==
    [][ (lastOp'.name = "complete" /\ processingBuffer > 0) =>
          LET f == [id |-> Len(appended) + 1, len |-> processingBuffer]
              q == Append(audioQueue, f)
              k == Len(submitted') - Len(submitted)
          IN  /\ isStreamComplete'
              /\ processingBuffer' = 0
              /\ ~fired'
              /\ appended' = Append(appended, processingBuffer)
              /\ k >= 0 /\ k <= Len(q)
              /\ audioQueue' = SubSeq(q, k + 1, Len(q))
              /\ \A j \in 1..k : /\ submitted'[Len(submitted) + j].frame = q[j].id
                                 /\ submitted'[Len(submitted) + j].dur = q[j].len
              /\ ~isPlaying => (k = 0 /\ timers' = timers)
              /\ isPlaying =>
                    IF audioQueue' = <<>>
                    THEN ~isPlaying' /\ ~checkInterval'
                    ELSE /\ scheduledTime' >= now + SCHEDULE_AHEAD_TIME
                         /\ BagCardinality(timers') = BagCardinality(timers) + 1
      ]_vars

C9_Witness ==
    /\ lastOp.name = "complete"
    /\ ~fired
    /\ Len(submitted) > 0
    /\ submitted[Len(submitted)].frame = Len(appended)
    /\ submitted[Len(submitted)].dur < bufferSize
    /\ processingBuffer = 0

\* ---- C10 ---------------------------------------------------------------
\* C10: complete() with an empty remainder buffer and an empty queue invokes
\* onComplete within the call, submits no frame, arms no timer and leaves the
\* queue, the remainder buffer and scheduledTime unchanged.
C10_CompleteOnEmpty ==
    [][ (lastOp'.name = "complete" /\ processingBuffer = 0 /\ audioQueue = <<>>) =>
          /\ fired'
          /\ submitted' = submitted
          /\ timers' = timers
          /\ checkInterval' => checkInterval
          /\ UNCHANGED <<audioQueue, processingBuffer, scheduledTime>>
      ]_vars

C10_Witness ==
    /\ lastOp.name = "complete"
    /\ fired
    /\ isPlaying
    /\ checkInterval
    /\ audioQueue = <<>>
    /\ processingBuffer = 0

\* ---- C11 ---------------------------------------------------------------
\* the streamer as constructed, whatever the clock shows
Fresh ==
    /\ lastOp.name \in {"construct", "tick"}
    /\ chunks = 0 /\ epoch = 0 /\ ~resumeWaiting
    /\ audioQueue = <<>> /\ processingBuffer = 0 /\ submitted = <<>>
    /\ ~isPlaying /\ ~isStreamComplete /\ ~checkInterval
    /\ scheduledTime = 0 /\ timers = EmptyBag /\ endOfQueueAudioSource = 0

\* the step is the first addPCM16 of a fresh streamer and carries exactly
\* bufferSize samples
FirstFullChunk ==
    /\ Fresh
    /\ lastOp'.name = "addPCM16"
    /\ decodedTotal' = bufferSize

\* C11 as stated: after the first addPCM16 of exactly bufferSize samples one
\* frame of bufferSize samples is in the queue, the remainder buffer is
\* empty, isPlaying is true and scheduledTime is the clock time plus
\* initialBufferTime.
C11_FirstChunkQueued ==
    [][ FirstFullChunk =>
          /\ Len(audioQueue') = 1
          /\ audioQueue'[1].len = bufferSize
          /\ processingBuffer' = 0
          /\ isPlaying'
          /\ scheduledTime' = now + initialBufferTime
      ]_vars

\* C11 as amended: after that call exactly one frame of bufferSize samples
\* has been produced and it is already submitted, to start at the clock time
\* plus initialBufferTime; the queue and the remainder buffer are empty,
\* isPlaying is true and scheduledTime is the clock time plus
\* initialBufferTime plus the duration of the frame.
C11_FirstChunkSubmitted ==
    [][ FirstFullChunk =>
          /\ appended' = <<bufferSize>>
          /\ audioQueue' = <<>>
          /\ Len(submitted') = 1
          /\ submitted'[1].frame = 1
          /\ submitted'[1].dur = bufferSize
          /\ submitted'[1].start = now + initialBufferTime
          /\ processingBuffer' = 0
          /\ isPlaying'
          /\ scheduledTime' = now + initialBufferTime + bufferSize
      ]_vars

C11_Witness ==
    /\ lastOp.name = "addPCM16"
    /\ chunks = 1 /\ epoch = 0
    /\ decodedTotal = bufferSize
    /\ ~isStreamComplete
    /\ Len(submitted) = 1
    /\ submitted[1].start = now + initialBufferTime
    /\ scheduledTime = now + initialBufferTime + bufferSize

\* ---- C12 ---------------------------------------------------------------
\* the frames numbered from a + 1 to b of the append history, as queue entries
NewFrames(a, b) == [j \in 1..(b - a) |-> [id |-> a + j, len |-> appended'[a + j]]]

\* C12: an addPCM16 that decodes n samples onto a remainder of r samples
\* produces exactly (r + n) \div bufferSize new frames, each of bufferSize
\* samples, placed in order behind the frames already queued, and leaves a
\* remainder of (r + n) % bufferSize samples.
C12_FrameSlicing ==
    [][ lastOp'.name = "addPCM16" =>
          LET n == decodedTotal' - decodedTotal
              r == processingBuffer
              k == (r + n) \div bufferSize
              q == audioQueue \o NewFrames(Len(appended), Len(appended'))
              d == Len(submitted') - Len(submitted)
          IN  /\ Len(appended') = Len(appended) + k
              /\ SubSeq(appended', 1, Len(appended)) = appended
              /\ \A j \in (Len(appended) + 1)..Len(appended') : appended'[j] = bufferSize
              /\ processingBuffer' = (r + n) % bufferSize
              /\ d >= 0 /\ d <= Len(q)
              /\ audioQueue' = SubSeq(q, d + 1, Len(q))
              /\ \A j \in 1..d : submitted'[Len(submitted) + j].frame = q[j].id
      ]_vars

\* a chunk of one frame and a bit into an empty buffer; a chunk that
\* completes two frames on top of a remainder
C12_Witness ==
    /\ lastOp.name = "addPCM16"
    /\ chunks = 2
    /\ decodedTotal = (bufferSize + 1) + 2 * bufferSize
    /\ Len(appended) = 3
    /\ processingBuffer = 1
    /\ Len(audioQueue) >= 2

\* ---- C14 ---------------------------------------------------------------
\* the sources still playing whose onended handler is set
LiveHooks == hooks \cap playing

\* C14: at most one playing source has a live completion hook, and it is the
\* current end-of-queue source; a step that arms a new end-of-queue source
\* leaves the previous one without a hook; an onended step invokes onComplete
\* exactly when the queue is empty and its source is the current end-of-queue
\* source, and then clears endOfQueueAudioSource.
C14_SingleMarker ==
    /\ [](Cardinality(LiveHooks) <= 1 /\ LiveHooks \subseteq {endOfQueueAudioSource})
    /\ [][ (endOfQueueAudioSource' # endOfQueueAudioSource /\ endOfQueueAudioSource' # 0)
              => endOfQueueAudioSource \notin hooks' ]_vars
    /\ [][ lastOp'.name = "onended" =>
              /\ fired' <=> ( /\ lastOp'.src \in hooks
                              /\ audioQueue = <<>>
                              /\ endOfQueueAudioSource = lastOp'.src )
              /\ fired' => endOfQueueAudioSource' = 0 ]_vars

\* the first source, a final short frame that emptied the queue, is still
\* playing and has lost its hook to the second source
C14_Witness ==
    /\ {1, 2} \subseteq playing
    /\ submitted[1].frame = 1
    /\ submitted[1].dur < bufferSize
    /\ endOfQueueAudioSource = 2
    /\ LiveHooks = {2}

\* ---- C15 ---------------------------------------------------------------
\* the drain timers outstanding: the poll interval and the one-shot timers
ArmedTimers == BagCardinality(timers) + (IF checkInterval THEN 1 ELSE 0)

\* C15: at most one drain re-arm timer is outstanding: never the poll
\* interval together with a one-shot timer, never two one-shot timers.
C15_SingleTimer == ArmedTimers <= 1

\* ---- C16 ---------------------------------------------------------------
\* C16: if from some point on the stream is complete and the queue and the
\* remainder buffer are empty (so no addPCM16 and no resume() follows), then
\* from some point on isPlaying is false and the poll interval is not armed.
C16_EventuallyInactive ==
    <>[](isStreamComplete /\ audioQueue = <<>> /\ processingBuffer = 0)
        => <>[](~isPlaying /\ ~checkInterval)

\* ---- C17 ---------------------------------------------------------------
\* C17: with no stop(), whenever the queue is not empty the scheduler is
\* active and a drain is pending (a one-shot timer or the poll interval is
\* armed), and every frame ever appended is eventually submitted.
C17_EveryFrameSubmitted ==
    /\ [](audioQueue # <<>> => (isPlaying /\ ArmedTimers >= 1))
    /\ <>[](Len(submitted) = Len(appended))

\* a frame that arrived while the scheduler was starved is submitted by the
\* poll interval
C17_Witness ==
    /\ lastOp.name = "interval"
    /\ Len(submitted) = 2
    /\ submitted[2].start >= submitted[1].start + submitted[1].dur
    /\ audioQueue = <<>>

\* ---- C18 ---------------------------------------------------------------
\* C18: in a session that has ingested samples and is complete, onComplete
\* is not invoked before the last submitted frame has finished playing: when
\* it is invoked no frame is queued and no source is still playing.
C18_CompletionAfterPlayback ==
    (fired /\ isStreamComplete /\ decodedTotal > 0)
        => (audioQueue = <<>> /\ playing = {})

\* ---- C19 ---------------------------------------------------------------
\* the step runs scheduleNextBuffer
DrainRuns ==
    \/ lastOp'.name = "timer"
    \/ lastOp'.name = "addPCM16" /\ ~isPlaying
    \/ lastOp'.name = "complete" /\ processingBuffer > 0 /\ isPlaying
    \/ lastOp'.name = "interval" /\ audioQueue # <<>>

\* C19: every start time submitted by a step is strictly less than the clock
\* time plus SCHEDULE_AHEAD_TIME, and when scheduleNextBuffer returns the
\* queue is empty or scheduledTime is at least the clock time plus
\* SCHEDULE_AHEAD_TIME.
C19_LookaheadWindow ==
    [][ /\ \A i \in NewSources : submitted'[i].start < now + SCHEDULE_AHEAD_TIME
        /\ DrainRuns => \/ audioQueue' = <<>>
                        \/ scheduledTime' >= now + SCHEDULE_AHEAD_TIME
      ]_vars

\* a drain that stopped at the lookahead window with a frame still queued
C19_Witness ==
    /\ lastOp.name = "timer"
    /\ Len(submitted) >= 2
    /\ audioQueue # <<>>
    /\ scheduledTime >= now + SCHEDULE_AHEAD_TIME

\* ---- C20 ---------------------------------------------------------------
\* C20: whenever isPlaying is false the queue and the remainder buffer are
\* both empty.
C20_InactiveMeansEmpty ==
    ~isPlaying => (audioQueue = <<>> /\ processingBuffer = 0)

\* the scheduler deactivated by a drain after the final frame was flushed
C20_Witness ==
    /\ ~isPlaying
    /\ epoch = 0
    /\ lastOp.name \in {"timer", "complete"}
    /\ Len(submitted) > 0
    /\ submitted[Len(submitted)].dur < bufferSize

====
